---- MODULE Spec2Model ----
(***************************************************************************)
(* Hermite Genz-Keister quadrature rules (chaospy/genz_keister.py).        *)
(*                                                                         *)
(* The four rule providers gk16, gk18, gk22, gk24 and the multivariate     *)
(* combinator gk are pure functions; they are modelled as operators and    *)
(* applied by the actions of a state machine whose state is the last call  *)
(* and its outcome.                                                        *)
(*                                                                         *)
(* Numbers.  A float literal of the tables is kept exactly, as a decimal:  *)
(*   X(s, ip, f1, f2)  is the abscissa  s * ip.f1f2   (f1, f2: nine        *)
(*                     decimals each, so -2.9592107790638380 is            *)
(*                     X(-1, 2, 959210779, 063838000));                    *)
(*   W(s, m1, m2, e)   is the weight  s * 0.m1m2 * 10^e  (m1, m2: nine     *)
(*                     digits each, m1 without leading zero, so            *)
(*                     2.9540897515091930E-01 is                           *)
(*                     W(1, 295408975, 150919300, 0)).                     *)
(* Arithmetic is exact: x * sqrt(2) is the abscissa with one more factor   *)
(* sqrt(2) (field r2), w / sum(w) is the fraction [num, den] whose         *)
(* denominator is the exact decimal sum of the raw weights, and a product  *)
(* of weights is the tuple of its factors.  Rounding of IEEE doubles is    *)
(* not modelled.  The external collaborators ndtr and dist.inv are         *)
(* uninterpreted: a node is the term inv(d, ndtr(x)).                      *)
(***************************************************************************)
EXTENDS Integers, Sequences, FiniteSets

\* ------------------------------------------------------------------------
\* Bounds of the model.
\* ------------------------------------------------------------------------
\* Levels n tried on the rule providers and on single-distribution calls
\* of gk are -LevelSpan..LevelSpan.
LevelSpan == 10

\* Largest number of distributions in a call of gk.
MaxDim == 2

\* Largest valid level used in a multi-distribution call of gk.
MaxGridLevel == 1

\* Number of 9-digit limbs after the decimal point in an exact weight sum.
FracLimbs == 7

\* ------------------------------------------------------------------------
\* Numbers.
\* ------------------------------------------------------------------------
\* An abscissa literal: sign s, integer part ip, decimals f1 f2; r2 counts
\* the factors sqrt(2) the value has been multiplied by.
X(s, ip, f1, f2) == [s |-> s, ip |-> ip, f1 |-> f1, f2 |-> f2, r2 |-> 0]

\* A weight literal: sign s, mantissa digits m1 m2, decimal exponent e.
W(s, m1, m2, e) == [s |-> s, m1 |-> m1, m2 |-> m2, e |-> e]

\* An array holds its entries as computed values: array(a) is a, evaluated
\* once.
array(a) == IF a = a THEN a ELSE a

\* np.zeros ( n ): an array of n zeros, indexed 0..n-1.
zeros(n, zero) == array([i \in 0..(n - 1) |-> zero])

XZero == X(0, 0, 0, 0)

WZero == W(0, 0, 0, 0)

\* -x for an abscissa.
Neg(x) == [x EXCEPT !.s = 0 - @]

Base == 10^9

Limbs == 0..FracLimbs

\* Limb i of |v| for a weight literal v, as a fixed-point number: limb i
\* counts units of Base^i * 10^(-9*FracLimbs); limb FracLimbs is the
\* integer part.
Limb(v, i) ==
  LET t  == 9 * FracLimbs - 18 + v.e
      q  == t \div 9
      r  == t % 9
      hi == 10^(9 - r)
  IN  IF i = q THEN (v.m2 % hi) * 10^r
      ELSE IF i = q + 1 THEN (v.m1 % hi) * 10^r + (v.m2 \div hi)
      ELSE IF i = q + 2 THEN v.m1 \div hi
      ELSE 0

\* The signed sum of limb i of w[lo], ..., w[hi-1], as hi * Base + lo with
\* 0 <= lo < Base (summed by halves).
RECURSIVE ColSum(_, _, _, _)
ColSum(w, i, lo, hi) ==
  IF hi <= lo THEN [lo |-> 0, hi |-> 0]
  ELSE IF hi = lo + 1
  THEN LET t == w[lo].s * Limb(w[lo], i)
       IN  [lo |-> t % Base, hi |-> t \div Base]
  ELSE LET mid == (lo + hi) \div 2
           a == ColSum(w, i, lo, mid)
           b == ColSum(w, i, mid, hi)
           t == a.lo + b.lo
       IN  [lo |-> t % Base, hi |-> a.hi + b.hi + (t \div Base)]

Size(a) == Cardinality(DOMAIN a)

\* np.sum(w), exactly: limbs 0..FracLimbs-1 in 0..Base-1, limb FracLimbs
\* (the integer part, rounded down) signed.
np_sum(w) ==
  LET cols == array([i \in Limbs |-> ColSum(w, i, 0, Size(w))])
      raw  == array([i \in Limbs |->
                       cols[i].lo + (IF i = 0 THEN 0 ELSE cols[i - 1].hi)])
      carry[i \in Limbs] ==
        IF i = 0 THEN 0 ELSE (raw[i - 1] + carry[i - 1]) \div Base
  IN  array([i \in Limbs |-> IF i = FracLimbs THEN raw[i] + carry[i]
                              ELSE (raw[i] + carry[i]) % Base])

\* The sum is 0.0.
IsZeroSum(S) == \A i \in Limbs : S[i] = 0

\* ------------------------------------------------------------------------
\* Outcomes of a call.
\* ------------------------------------------------------------------------
Ok(x, w) == [ok |-> TRUE, err |-> "", x |-> x, w |-> w]

Err(e) == [ok |-> FALSE, err |-> e, x |-> <<>>, w |-> <<>>]

\* A slip that reads the list one-based: level n selects entry n.
PyIndex_one_based(list, n) ==
  IF 1 <= n /\ n <= Len(list) THEN [ok |-> TRUE, v |-> list[n]]
  ELSE [ok |-> FALSE, v |-> 0]

\* list[n] of Python: n in -K..K-1 selects an entry (a negative n counts
\* from the end), any other n raises IndexError.
PyIndex(list, n) ==
  LET K == Len(list)
  IN  IF 0 <= n /\ n < K THEN [ok |-> TRUE, v |-> list[n + 1]]
      ELSE IF 0 - K <= n /\ n < 0 THEN [ok |-> TRUE, v |-> list[K + n + 1]]
      ELSE [ok |-> FALSE, v |-> 0]

\* x[i] = v; ... : the array a after the assignments stmts, applied in
\* order: entry i holds the value of the last assignment to index i, or
\* what a held.
Assign(a, stmts) ==
  array([i \in DOMAIN a |->
           LET ks == {k \in DOMAIN stmts : stmts[k][1] = i}
           IN  IF ks = {} THEN a[i]
               ELSE stmts[CHOOSE k \in ks : \A m \in ks : m <= k][2]])

\* The weights returned as tabulated (over a sum of 1).
Normalise_missing(w) ==
  LET S == array([i \in Limbs |-> IF i = FracLimbs THEN 1 ELSE 0])
  IN  array([i \in DOMAIN w |-> [num |-> w[i], den |-> S]])

\* w /= np.sum(w)
Normalise(w) ==
  LET S == np_sum(w) IN array([i \in DOMAIN w |-> [num |-> w[i], den |-> S]])

\* x *= np.sqrt(2)   (0.0 * sqrt(2) is 0.0)
Scale(x) ==
  array([i \in DOMAIN x |-> IF x[i].s = 0 THEN x[i] ELSE [x[i] EXCEPT !.r2 = @ + 1]])

\* ------------------------------------------------------------------------
\* The tables.
\* ------------------------------------------------------------------------
\* gk16, n == 1: the assignments to x, in program order, as <<index, value>>.
gk16_x1 ==
  << << 0, X( 0, 0, 000000000, 000000000)>> >>

\* gk16, n == 1: the assignments to w, in program order, as <<index, value>>.
gk16_w1 ==
  << << 0, W( 1, 177245385, 090551590, 1)>> >>

\* gk16, n == 3: the assignments to x, in program order, as <<index, value>>.
gk16_x3 ==
  << << 0, X(-1, 1, 224744871, 391588900)>>,
     << 1, X( 0, 0, 000000000, 000000000)>>,
     << 2, X( 1, 1, 224744871, 391588900)>> >>

\* gk16, n == 3: the assignments to w, in program order, as <<index, value>>.
gk16_w3 ==
  << << 0, W( 1, 295408975, 150919300, 0)>>,
     << 1, W( 1, 118163590, 060367720, 1)>>,
     << 2, W( 1, 295408975, 150919300, 0)>> >>

\* gk16, n == 7: the assignments to x, in program order, as <<index, value>>.
gk16_x7 ==
  << << 0, X(-1, 2, 959210779, 063838000)>>,
     << 1, X(-1, 1, 224744871, 391588900)>>,
     << 2, X(-1, 0, 524033547, 486957630)>>,
     << 3, X( 0, 0, 000000000, 000000000)>>,
     << 4, X( 1, 0, 524033547, 486957630)>>,
     << 5, X( 1, 1, 224744871, 391588900)>>,
     << 6, X( 1, 2, 959210779, 063838000)>> >>

\* gk16, n == 7: the assignments to w, in program order, as <<index, value>>.
gk16_w7 ==
  << << 0, W( 1, 123306806, 551534480, -2)>>,
     << 1, W( 1, 245579285, 350313930, 0)>>,
     << 2, W( 1, 232862517, 873861000, 0)>>,
     << 3, W( 1, 813104108, 326135000, 0)>>,
     << 4, W( 1, 232862517, 873861000, 0)>>,
     << 5, W( 1, 245579285, 350313930, 0)>>,
     << 6, W( 1, 123306806, 551534480, -2)>> >>

\* gk16, n == 9: the assignments to x, in program order, as <<index, value>>.
gk16_x9 ==
  << << 0, X(-1, 2, 959210779, 063838000)>>,
     << 1, X(-1, 2, 023230191, 100515700)>>,
     << 2, X(-1, 1, 224744871, 391588900)>>,
     << 3, X(-1, 0, 524033547, 486957630)>>,
     << 4, X( 0, 0, 000000000, 000000000)>>,
     << 5, X( 1, 0, 524033547, 486957630)>>,
     << 6, X( 1, 1, 224744871, 391588900)>>,
     << 7, X( 1, 2, 023230191, 100515700)>>,
     << 8, X( 1, 2, 959210779, 063838000)>> >>

\* gk16, n == 9: the assignments to w, in program order, as <<index, value>>.
gk16_w9 ==
  << << 0, W( 1, 167088263, 068823480, -3)>>,
     << 1, W( 1, 141731178, 739790980, -1)>>,
     << 2, W( 1, 168118928, 947677710, 0)>>,
     << 3, W( 1, 478694285, 491141240, 0)>>,
     << 4, W( 1, 450147009, 753781970, 0)>>,
     << 5, W( 1, 478694285, 491141240, 0)>>,
     << 6, W( 1, 168118928, 947677710, 0)>>,
     << 7, W( 1, 141731178, 739790980, -1)>>,
     << 8, W( 1, 167088263, 068823480, -3)>> >>

\* gk16, n == 17: the assignments to x, in program order, as <<index, value>>.
gk16_x17 ==
  << << 0, X(-1, 4, 499599398, 310388100)>>,
     << 1, X(-1, 3, 667774215, 946337800)>>,
     << 2, X(-1, 2, 959210779, 063838000)>>,
     << 3, X(-1, 2, 023230191, 100515700)>>,
     << 4, X(-1, 1, 835707975, 175186800)>>,
     << 5, X(-1, 1, 224744871, 391588900)>>,
     << 6, X(-1, 0, 870040895, 352902850)>>,
     << 7, X(-1, 0, 524033547, 486957630)>>,
     << 8, X( 0, 0, 000000000, 000000000)>>,
     << 9, X( 1, 0, 524033547, 486957630)>>,
     <<10, X( 1, 0, 870040895, 352902850)>>,
     <<11, X( 1, 1, 224744871, 391588900)>>,
     <<12, X( 1, 1, 835707975, 175186800)>>,
     <<13, X( 1, 2, 023230191, 100515700)>>,
     <<14, X( 1, 2, 959210779, 063838000)>>,
     <<15, X( 1, 3, 667774215, 946337800)>>,
     <<16, X( 1, 4, 499599398, 310388100)>> >>

\* gk16, n == 17: the assignments to w, in program order, as <<index, value>>.
gk16_w17 ==
  << << 0, W( 1, 374634699, 430517580, -7)>>,
     << 1, W(-1, 145428433, 870693910, -5)>>,
     << 2, W( 1, 187238189, 492783500, -3)>>,
     << 3, W( 1, 124665191, 328059180, -1)>>,
     << 4, W( 1, 348407193, 468038000, -2)>>,
     << 5, W( 1, 157182983, 766522400, 0)>>,
     << 6, W( 1, 251558257, 017129340, -1)>>,
     << 7, W( 1, 451198036, 023585440, 0)>>,
     << 8, W( 1, 473107335, 049653850, 0)>>,
     << 9, W( 1, 451198036, 023585440, 0)>>,
     <<10, W( 1, 251558257, 017129340, -1)>>,
     <<11, W( 1, 157182983, 766522400, 0)>>,
     <<12, W( 1, 348407193, 468038000, -2)>>,
     <<13, W( 1, 124665191, 328059180, -1)>>,
     <<14, W( 1, 187238189, 492783500, -3)>>,
     <<15, W(-1, 145428433, 870693910, -5)>>,
     <<16, W( 1, 374634699, 430517580, -7)>> >>

\* gk16, n == 19: the assignments to x, in program order, as <<index, value>>.
gk16_x19 ==
  << << 0, X(-1, 4, 499599398, 310388100)>>,
     << 1, X(-1, 3, 667774215, 946337800)>>,
     << 2, X(-1, 2, 959210779, 063838000)>>,
     << 3, X(-1, 2, 266513262, 056787600)>>,
     << 4, X(-1, 2, 023230191, 100515700)>>,
     << 5, X(-1, 1, 835707975, 175186800)>>,
     << 7, X(-1, 1, 224744871, 391588900)>>,
     << 8, X(-1, 0, 870040895, 352902850)>>,
     << 8, X(-1, 0, 524033547, 486957630)>>,
     << 9, X( 0, 0, 000000000, 000000000)>>,
     <<10, X( 1, 0, 524033547, 486957630)>>,
     <<11, X( 1, 0, 870040895, 352902850)>>,
     <<12, X( 1, 1, 224744871, 391588900)>>,
     <<13, X( 1, 1, 835707975, 175186800)>>,
     <<14, X( 1, 2, 023230191, 100515700)>>,
     <<15, X( 1, 2, 266513262, 056787600)>>,
     <<16, X( 1, 2, 959210779, 063838000)>>,
     <<17, X( 1, 3, 667774215, 946337800)>>,
     <<18, X( 1, 4, 499599398, 310388100)>> >>

\* gk16, n == 19: the assignments to w, in program order, as <<index, value>>.
gk16_w19 ==
  << << 0, W( 1, 152957177, 053223570, -8)>>,
     << 1, W( 1, 108027672, 066247620, -5)>>,
     << 2, W( 1, 106565897, 728522670, -3)>>,
     << 3, W( 1, 511331743, 908838550, -2)>>,
     << 4, W(-1, 112324384, 890692290, -1)>>,
     << 5, W( 1, 320552430, 994458790, -1)>>,
     << 6, W( 1, 113607298, 957482690, 0)>>,
     << 7, W( 1, 108388619, 550030170, 0)>>,
     << 8, W( 1, 369246433, 689208510, 0)>>,
     << 9, W( 1, 537881607, 005101680, 0)>>,
     <<10, W( 1, 369246433, 689208510, 0)>>,
     <<11, W( 1, 108388619, 550030170, 0)>>,
     <<12, W( 1, 113607298, 957482690, 0)>>,
     <<13, W( 1, 320552430, 994458790, -1)>>,
     <<14, W(-1, 112324384, 890692290, -1)>>,
     <<15, W( 1, 511331743, 908838550, -2)>>,
     <<16, W( 1, 106565897, 728522670, -3)>>,
     <<17, W( 1, 108027672, 066247620, -5)>>,
     <<18, W( 1, 152957177, 053223570, -8)>> >>

\* gk16, n == 31: the assignments to x, in program order, as <<index, value>>.
gk16_x31 ==
  << << 0, X(-1, 6, 375939270, 982235600)>>,
     << 1, X(-1, 5, 643257857, 885744900)>>,
     << 2, X(-1, 5, 036089944, 473094000)>>,
     << 3, X(-1, 4, 499599398, 310388100)>>,
     << 4, X(-1, 3, 667774215, 946337800)>>,
     << 5, X(-1, 2, 959210779, 063838000)>>,
     << 6, X(-1, 2, 570558376, 584296800)>>,
     << 7, X(-1, 2, 266513262, 056787600)>>,
     << 8, X(-1, 2, 023230191, 100515700)>>,
     << 9, X(-1, 1, 835707975, 175186800)>>,
     <<10, X(-1, 1, 579412134, 846767100)>>,
     <<11, X(-1, 1, 224744871, 391588900)>>,
     <<12, X(-1, 0, 870040895, 352902850)>>,
     <<13, X(-1, 0, 524033547, 486957630)>>,
     <<14, X(-1, 0, 176064142, 082008930)>>,
     <<15, X( 0, 0, 000000000, 000000000)>>,
     <<16, X( 1, 0, 176064142, 082008930)>>,
     <<17, X( 1, 0, 524033547, 486957630)>>,
     <<18, X( 1, 0, 870040895, 352902850)>>,
     <<19, X( 1, 1, 224744871, 391588900)>>,
     <<20, X( 1, 1, 579412134, 846767100)>>,
     <<21, X( 1, 1, 835707975, 175186800)>>,
     <<22, X( 1, 2, 023230191, 100515700)>>,
     <<23, X( 1, 2, 266513262, 056787600)>>,
     <<24, X( 1, 2, 570558376, 584296800)>>,
     <<25, X( 1, 2, 959210779, 063838000)>>,
     <<26, X( 1, 3, 667774215, 946337800)>>,
     <<27, X( 1, 4, 499599398, 310388100)>>,
     <<28, X( 1, 5, 036089944, 473094000)>>,
     <<29, X( 1, 5, 643257857, 885744900)>>,
     <<30, X( 1, 6, 375939270, 982235600)>> >>

\* gk16, n == 31: the assignments to w, in program order, as <<index, value>>.
gk16_w31 ==
  << << 0, W( 1, 223656456, 070444590, -14)>>,
     << 1, W(-1, 263046964, 585489420, -12)>>,
     << 2, W( 1, 906752882, 316798230, -11)>>,
     << 3, W( 1, 140552520, 247224780, -8)>>,
     << 4, W( 1, 108892196, 921281200, -5)>>,
     << 5, W( 1, 105416623, 947466610, -3)>>,
     << 6, W( 1, 266651597, 789394280, -4)>>,
     << 7, W( 1, 483852082, 055026120, -2)>>,
     << 8, W(-1, 985662704, 346100190, -2)>>,
     << 9, W( 1, 294094275, 803507870, -1)>>,
     <<10, W( 1, 312102103, 526828340, -2)>>,
     <<11, W( 1, 109393250, 718608770, 0)>>,
     <<12, W( 1, 115949309, 848531160, 0)>>,
     <<13, W( 1, 353938890, 295805440, 0)>>,
     <<14, W( 1, 498557618, 932931600, -1)>>,
     <<15, W( 1, 458888396, 367567510, 0)>>,
     <<16, W( 1, 498557618, 932931600, -1)>>,
     <<17, W( 1, 353938890, 295805440, 0)>>,
     <<18, W( 1, 115949309, 848531160, 0)>>,
     <<19, W( 1, 109393250, 718608770, 0)>>,
     <<20, W( 1, 312102103, 526828340, -2)>>,
     <<21, W( 1, 294094275, 803507870, -1)>>,
     <<22, W(-1, 985662704, 346100190, -2)>>,
     <<23, W( 1, 483852082, 055026120, -2)>>,
     <<24, W( 1, 266651597, 789394280, -4)>>,
     <<25, W( 1, 105416623, 947466610, -3)>>,
     <<26, W( 1, 108892196, 921281200, -5)>>,
     <<27, W( 1, 140552520, 247224780, -8)>>,
     <<28, W( 1, 906752882, 316798230, -11)>>,
     <<29, W(-1, 263046964, 585489420, -12)>>,
     <<30, W( 1, 223656456, 070444590, -14)>> >>

\* gk16, n == 33: the assignments to x, in program order, as <<index, value>>.
gk16_x33 ==
  << << 0, X(-1, 6, 375939270, 982235600)>>,
     << 1, X(-1, 5, 643257857, 885744900)>>,
     << 2, X(-1, 5, 036089944, 473094000)>>,
     << 3, X(-1, 4, 499599398, 310388100)>>,
     << 4, X(-1, 4, 029220140, 504371300)>>,
     << 5, X(-1, 3, 667774215, 946337800)>>,
     << 6, X(-1, 2, 959210779, 063838000)>>,
     << 7, X(-1, 2, 570558376, 584296800)>>,
     << 8, X(-1, 2, 266513262, 056787600)>>,
     << 9, X(-1, 2, 023230191, 100515700)>>,
     <<10, X(-1, 1, 835707975, 175186800)>>,
     <<11, X(-1, 1, 579412134, 846767100)>>,
     <<12, X(-1, 1, 224744871, 391588900)>>,
     <<13, X(-1, 0, 870040895, 352902850)>>,
     <<14, X(-1, 0, 524033547, 486957630)>>,
     <<15, X(-1, 0, 176064142, 082008930)>>,
     <<16, X( 0, 0, 000000000, 000000000)>>,
     <<17, X( 1, 0, 176064142, 082008930)>>,
     <<18, X( 1, 0, 524033547, 486957630)>>,
     <<19, X( 1, 0, 870040895, 352902850)>>,
     <<20, X( 1, 1, 224744871, 391588900)>>,
     <<21, X( 1, 1, 579412134, 846767100)>>,
     <<22, X( 1, 1, 835707975, 175186800)>>,
     <<23, X( 1, 2, 023230191, 100515700)>>,
     <<24, X( 1, 2, 266513262, 056787600)>>,
     <<25, X( 1, 2, 570558376, 584296800)>>,
     <<26, X( 1, 2, 959210779, 063838000)>>,
     <<27, X( 1, 3, 667774215, 946337800)>>,
     <<28, X( 1, 4, 029220140, 504371300)>>,
     <<29, X( 1, 4, 499599398, 310388100)>>,
     <<30, X( 1, 5, 036089944, 473094000)>>,
     <<31, X( 1, 5, 643257857, 885744900)>>,
     <<32, X( 1, 6, 375939270, 982235600)>> >>

\* gk16, n == 33: the assignments to w, in program order, as <<index, value>>.
gk16_w33 ==
  << << 0, W(-1, 176029328, 053724960, -14)>>,
     << 1, W( 1, 472192786, 664176930, -12)>>,
     << 2, W(-1, 342815705, 303495620, -10)>>,
     << 3, W( 1, 275478251, 389359010, -8)>>,
     << 4, W(-1, 239033433, 828035100, -7)>>,
     << 5, W( 1, 122452209, 671584380, -5)>>,
     << 6, W( 1, 987100091, 974091730, -4)>>,
     << 7, W( 1, 147532049, 018627720, -3)>>,
     << 8, W( 1, 375800266, 043047930, -2)>>,
     << 9, W(-1, 491185761, 238775550, -2)>>,
     <<10, W( 1, 204350583, 591072050, -1)>>,
     <<11, W( 1, 130328726, 990279600, -1)>>,
     <<12, W( 1, 969134449, 445836210, -1)>>,
     <<13, W( 1, 137265211, 915675510, 0)>>,
     <<14, W( 1, 312086561, 946974480, 0)>>,
     <<15, W( 1, 184116960, 477257900, 0)>>,
     <<16, W( 1, 246566449, 328296190, 0)>>,
     <<17, W( 1, 184116960, 477257900, 0)>>,
     <<18, W( 1, 312086561, 946974480, 0)>>,
     <<19, W( 1, 137265211, 915675510, 0)>>,
     <<20, W( 1, 969134449, 445836210, -1)>>,
     <<21, W( 1, 130328726, 990279600, -1)>>,
     <<22, W( 1, 204350583, 591072050, -1)>>,
     <<23, W(-1, 491185761, 238775550, -2)>>,
     <<24, W( 1, 375800266, 043047930, -2)>>,
     <<25, W( 1, 147532049, 018627720, -3)>>,
     <<26, W( 1, 987100091, 974091730, -4)>>,
     <<27, W( 1, 122452209, 671584380, -5)>>,
     <<28, W(-1, 239033433, 828035100, -7)>>,
     <<29, W( 1, 275478251, 389359010, -8)>>,
     <<30, W(-1, 342815705, 303495620, -10)>>,
     <<31, W( 1, 472192786, 664176930, -12)>>,
     <<32, W(-1, 176029328, 053724960, -14)>> >>

\* gk16, n == 35: the assignments to x, in program order, as <<index, value>>.
gk16_x35 ==
  << << 0, X(-1, 6, 375939270, 982235600)>>,
     << 1, X(-1, 5, 643257857, 885744900)>>,
     << 2, X(-1, 5, 036089944, 473094000)>>,
     << 3, X(-1, 4, 499599398, 310388100)>>,
     << 4, X(-1, 4, 029220140, 504371300)>>,
     << 5, X(-1, 3, 667774215, 946337800)>>,
     << 6, X(-1, 3, 349163953, 713194500)>>,
     << 7, X(-1, 2, 959210779, 063838000)>>,
     << 8, X(-1, 2, 570558376, 584296800)>>,
     << 9, X(-1, 2, 266513262, 056787600)>>,
     <<10, X(-1, 2, 023230191, 100515700)>>,
     <<11, X(-1, 1, 835707975, 175186800)>>,
     <<12, X(-1, 1, 579412134, 846767100)>>,
     <<13, X(-1, 1, 224744871, 391588900)>>,
     <<14, X(-1, 0, 870040895, 352902850)>>,
     <<15, X(-1, 0, 524033547, 486957630)>>,
     <<16, X(-1, 0, 176064142, 082008930)>>,
     <<17, X( 0, 0, 000000000, 000000000)>>,
     <<18, X( 1, 0, 176064142, 082008930)>>,
     <<19, X( 1, 0, 524033547, 486957630)>>,
     <<20, X( 1, 0, 870040895, 352902850)>>,
     <<21, X( 1, 1, 224744871, 391588900)>>,
     <<22, X( 1, 1, 579412134, 846767100)>>,
     <<23, X( 1, 1, 835707975, 175186800)>>,
     <<24, X( 1, 2, 023230191, 100515700)>>,
     <<25, X( 1, 2, 266513262, 056787600)>>,
     <<26, X( 1, 2, 570558376, 584296800)>>,
     <<27, X( 1, 2, 959210779, 063838000)>>,
     <<28, X( 1, 3, 349163953, 713194500)>>,
     <<29, X( 1, 3, 667774215, 946337800)>>,
     <<30, X( 1, 4, 029220140, 504371300)>>,
     <<31, X( 1, 4, 499599398, 310388100)>>,
     <<32, X( 1, 5, 036089944, 473094000)>>,
     <<33, X( 1, 5, 643257857, 885744900)>>,
     <<34, X( 1, 6, 375939270, 982235600)>> >>

\* gk16, n == 35: the assignments to w, in program order, as <<index, value>>.
gk16_w35 ==
  << << 0, W( 1, 186840148, 945106040, -17)>>,
     << 1, W( 1, 965994662, 785632430, -14)>>,
     << 2, W( 1, 548968369, 484994620, -11)>>,
     << 3, W( 1, 815537218, 169168970, -9)>>,
     << 4, W( 1, 379202223, 923195320, -7)>>,
     << 5, W( 1, 437378180, 409269890, -6)>>,
     << 6, W( 1, 484627997, 370204610, -5)>>,
     << 7, W( 1, 633286208, 056178910, -4)>>,
     << 8, W( 1, 487853993, 044437700, -3)>>,
     << 9, W( 1, 145155804, 251559040, -2)>>,
     <<10, W( 1, 409675277, 203440470, -2)>>,
     <<11, W( 1, 559288289, 114691800, -2)>>,
     <<12, W( 1, 277805089, 085350970, -1)>>,
     <<13, W( 1, 802455181, 473908930, -1)>>,
     <<14, W( 1, 163712215, 557358040, 0)>>,
     <<15, W( 1, 262448714, 887842770, 0)>>,
     <<16, W( 1, 339885955, 855852180, 0)>>,
     <<17, W( 1, 912626753, 637379210, -3)>>,
     <<18, W( 1, 339885955, 855852180, 0)>>,
     <<19, W( 1, 262448714, 887842770, 0)>>,
     <<20, W( 1, 163712215, 557358040, 0)>>,
     <<21, W( 1, 802455181, 473908930, -1)>>,
     <<22, W( 1, 277805089, 085350970, -1)>>,
     <<23, W( 1, 559288289, 114691800, -2)>>,
     <<24, W( 1, 409675277, 203440470, -2)>>,
     <<25, W( 1, 145155804, 251559040, -2)>>,
     <<26, W( 1, 487853993, 044437700, -3)>>,
     <<27, W( 1, 633286208, 056178910, -4)>>,
     <<28, W( 1, 484627997, 370204610, -5)>>,
     <<29, W( 1, 437378180, 409269890, -6)>>,
     <<30, W( 1, 379202223, 923195320, -7)>>,
     <<31, W( 1, 815537218, 169168970, -9)>>,
     <<32, W( 1, 548968369, 484994620, -11)>>,
     <<33, W( 1, 965994662, 785632430, -14)>>,
     <<34, W( 1, 186840148, 945106040, -17)>> >>

\* gk18, n == 1: the assignments to x, in program order, as <<index, value>>.
gk18_x1 ==
  << << 0, X( 0, 0, 000000000, 000000000)>> >>

\* gk18, n == 1: the assignments to w, in program order, as <<index, value>>.
gk18_w1 ==
  << << 0, W( 1, 177245385, 090551590, 1)>> >>

\* gk18, n == 3: the assignments to x, in program order, as <<index, value>>.
gk18_x3 ==
  << << 0, X(-1, 1, 224744871, 391588900)>>,
     << 1, X( 0, 0, 000000000, 000000000)>>,
     << 2, X( 1, 1, 224744871, 391588900)>> >>

\* gk18, n == 3: the assignments to w, in program order, as <<index, value>>.
gk18_w3 ==
  << << 0, W( 1, 295408975, 150919300, 0)>>,
     << 1, W( 1, 118163590, 060367720, 1)>>,
     << 2, W( 1, 295408975, 150919300, 0)>> >>

\* gk18, n == 9: the assignments to x, in program order, as <<index, value>>.
gk18_x9 ==
  << << 0, X(-1, 2, 959210779, 063838000)>>,
     << 1, X(-1, 2, 023230191, 100515700)>>,
     << 2, X(-1, 1, 224744871, 391588900)>>,
     << 3, X(-1, 0, 524033547, 486957630)>>,
     << 4, X( 0, 0, 000000000, 000000000)>>,
     << 5, X( 1, 0, 524033547, 486957630)>>,
     << 6, X( 1, 1, 224744871, 391588900)>>,
     << 7, X( 1, 2, 023230191, 100515700)>>,
     << 8, X( 1, 2, 959210779, 063838000)>> >>

\* gk18, n == 9: the assignments to w, in program order, as <<index, value>>.
gk18_w9 ==
  << << 0, W( 1, 167088263, 068823480, -3)>>,
     << 1, W( 1, 141731178, 739790980, -1)>>,
     << 2, W( 1, 168118928, 947677710, 0)>>,
     << 3, W( 1, 478694285, 491141240, 0)>>,
     << 4, W( 1, 450147009, 753781970, 0)>>,
     << 5, W( 1, 478694285, 491141240, 0)>>,
     << 6, W( 1, 168118928, 947677710, 0)>>,
     << 7, W( 1, 141731178, 739790980, -1)>>,
     << 8, W( 1, 167088263, 068823480, -3)>> >>

\* gk18, n == 19: the assignments to x, in program order, as <<index, value>>.
gk18_x19 ==
  << << 0, X(-1, 4, 499599398, 310388100)>>,
     << 1, X(-1, 3, 667774215, 946337800)>>,
     << 2, X(-1, 2, 959210779, 063838000)>>,
     << 3, X(-1, 2, 266513262, 056787600)>>,
     << 4, X(-1, 2, 023230191, 100515700)>>,
     << 5, X(-1, 1, 835707975, 175186800)>>,
     << 6, X(-1, 1, 224744871, 391588900)>>,
     << 7, X(-1, 0, 870040895, 352902850)>>,
     << 8, X(-1, 0, 524033547, 486957630)>>,
     << 9, X( 0, 0, 000000000, 000000000)>>,
     <<10, X( 1, 0, 524033547, 486957630)>>,
     <<11, X( 1, 0, 870040895, 352902850)>>,
     <<12, X( 1, 1, 224744871, 391588900)>>,
     <<13, X( 1, 1, 835707975, 175186800)>>,
     <<14, X( 1, 2, 023230191, 100515700)>>,
     <<15, X( 1, 2, 266513262, 056787600)>>,
     <<16, X( 1, 2, 959210779, 063838000)>>,
     <<17, X( 1, 3, 667774215, 946337800)>>,
     <<18, X( 1, 4, 499599398, 310388100)>> >>

\* gk18, n == 19: the assignments to w, in program order, as <<index, value>>.
gk18_w19 ==
  << << 0, W( 1, 152957177, 053223570, -8)>>,
     << 1, W( 1, 108027672, 066247620, -5)>>,
     << 2, W( 1, 106565897, 728522670, -3)>>,
     << 3, W( 1, 511331743, 908838550, -2)>>,
     << 4, W(-1, 112324384, 890692290, -1)>>,
     << 5, W( 1, 320552430, 994458790, -1)>>,
     << 6, W( 1, 113607298, 957482690, 0)>>,
     << 7, W( 1, 108388619, 550030170, 0)>>,
     << 8, W( 1, 369246433, 689208510, 0)>>,
     << 9, W( 1, 537881607, 005101680, 0)>>,
     <<10, W( 1, 369246433, 689208510, 0)>>,
     <<11, W( 1, 108388619, 550030170, 0)>>,
     <<12, W( 1, 113607298, 957482690, 0)>>,
     <<13, W( 1, 320552430, 994458790, -1)>>,
     <<14, W(-1, 112324384, 890692290, -1)>>,
     <<15, W( 1, 511331743, 908838550, -2)>>,
     <<16, W( 1, 106565897, 728522670, -3)>>,
     <<17, W( 1, 108027672, 066247620, -5)>>,
     <<18, W( 1, 152957177, 053223570, -8)>> >>

\* gk18, n == 37: the assignments to x, in program order, as <<index, value>>.
gk18_x37 ==
  << << 0, X(-1, 6, 853200069, 757519000)>>,
     << 1, X(-1, 6, 124527854, 622158000)>>,
     << 2, X(-1, 5, 521865209, 868350000)>>,
     << 3, X(-1, 4, 986551454, 150765000)>>,
     << 4, X(-1, 4, 499599398, 310388000)>>,
     << 5, X(-1, 4, 057956316, 089741000)>>,
     << 6, X(-1, 3, 667774215, 946338000)>>,
     << 7, X(-1, 3, 315584617, 593290000)>>,
     << 8, X(-1, 2, 959210779, 063838000)>>,
     << 9, X(-1, 2, 597288631, 188366000)>>,
     <<10, X(-1, 2, 266513262, 056788000)>>,
     <<11, X(-1, 2, 023230191, 100516000)>>,
     <<12, X(-1, 1, 835707975, 175187000)>>,
     <<13, X(-1, 1, 561553427, 651873000)>>,
     <<14, X(-1, 1, 224744871, 391589000)>>,
     <<15, X(-1, 0, 870040895, 352903000)>>,
     <<16, X(-1, 0, 524033547, 486958000)>>,
     <<17, X(-1, 0, 214618180, 588171000)>>,
     <<18, X( 0, 0, 000000000, 000000000)>>,
     <<19, X( 1, 0, 214618180, 588171000)>>,
     <<20, X( 1, 0, 524033547, 486958000)>>,
     <<21, X( 1, 0, 870040895, 352903000)>>,
     <<22, X( 1, 1, 224744871, 391589000)>>,
     <<23, X( 1, 1, 561553427, 651873000)>>,
     <<24, X( 1, 1, 835707975, 175187000)>>,
     <<25, X( 1, 2, 023230191, 100516000)>>,
     <<26, X( 1, 2, 266513262, 056788000)>>,
     <<27, X( 1, 2, 597288631, 188366000)>>,
     <<28, X( 1, 2, 959210779, 063838000)>>,
     <<29, X( 1, 3, 315584617, 593290000)>>,
     <<30, X( 1, 3, 667774215, 946338000)>>,
     <<31, X( 1, 4, 057956316, 089741000)>>,
     <<32, X( 1, 4, 499599398, 310388000)>>,
     <<33, X( 1, 4, 986551454, 150765000)>>,
     <<34, X( 1, 5, 521865209, 868350000)>>,
     <<35, X( 1, 6, 124527854, 622158000)>>,
     <<36, X( 1, 6, 853200069, 757519000)>> >>

\* gk18, n == 37: the assignments to w, in program order, as <<index, value>>.
gk18_w37 ==
  << << 0, W( 1, 190303509, 401304980, -20)>>,
     << 1, W( 1, 187781893, 143728947, -16)>>,
     << 2, W( 1, 182242751, 549129356, -13)>>,
     << 3, W( 1, 456617636, 761868590, -11)>>,
     << 4, W( 1, 422525843, 963111041, -9)>>,
     << 5, W( 1, 165954488, 093898190, -7)>>,
     << 6, W( 1, 295907520, 230744049, -6)>>,
     << 7, W( 1, 330975870, 979203419, -5)>>,
     << 8, W( 1, 322651859, 837397470, -4)>>,
     << 9, W( 1, 234940366, 465975222, -3)>>,
     <<10, W( 1, 985827582, 996483824, -3)>>,
     <<11, W( 1, 176802225, 818295443, -2)>>,
     <<12, W( 1, 433349881, 227234920, -2)>>,
     <<13, W( 1, 155131098, 748593540, -1)>>,
     <<14, W( 1, 442116442, 189845444, -1)>>,
     <<15, W( 1, 937208280, 655245902, -1)>>,
     <<16, W( 1, 143099302, 896833389, 0)>>,
     <<17, W( 1, 147655710, 402686249, 0)>>,
     <<18, W( 1, 968824552, 928425499, -1)>>,
     <<19, W( 1, 147655710, 402686249, 0)>>,
     <<20, W( 1, 143099302, 896833389, 0)>>,
     <<21, W( 1, 937208280, 655245902, -1)>>,
     <<22, W( 1, 442116442, 189845444, -1)>>,
     <<23, W( 1, 155131098, 748593540, -1)>>,
     <<24, W( 1, 433349881, 227234920, -2)>>,
     <<25, W( 1, 176802225, 818295443, -2)>>,
     <<26, W( 1, 985827582, 996483824, -3)>>,
     <<27, W( 1, 234940366, 465975222, -3)>>,
     <<28, W( 1, 322651859, 837397470, -4)>>,
     <<29, W( 1, 330975870, 979203419, -5)>>,
     <<30, W( 1, 295907520, 230744049, -6)>>,
     <<31, W( 1, 165954488, 093898190, -7)>>,
     <<32, W( 1, 422525843, 963111041, -9)>>,
     <<33, W( 1, 456617636, 761868590, -11)>>,
     <<34, W( 1, 182242751, 549129356, -13)>>,
     <<35, W( 1, 187781893, 143728947, -16)>>,
     <<36, W( 1, 190303509, 401304980, -20)>> >>

\* gk22, n == 1: the assignments to x, in program order, as <<index, value>>.
gk22_x1 ==
  << << 0, X( 0, 0, 000000000, 000000000)>> >>

\* gk22, n == 1: the assignments to w, in program order, as <<index, value>>.
gk22_w1 ==
  << << 0, W( 1, 177245385, 090551590, 1)>> >>

\* gk22, n == 3: the assignments to x, in program order, as <<index, value>>.
gk22_x3 ==
  << << 0, X(-1, 1, 224744871, 391588900)>>,
     << 1, X( 0, 0, 000000000, 000000000)>>,
     << 2, X( 1, 1, 224744871, 391588900)>> >>

\* gk22, n == 3: the assignments to w, in program order, as <<index, value>>.
gk22_w3 ==
  << << 0, W( 1, 295408975, 150919300, 0)>>,
     << 1, W( 1, 118163590, 060367720, 1)>>,
     << 2, W( 1, 295408975, 150919300, 0)>> >>

\* gk22, n == 9: the assignments to x, in program order, as <<index, value>>.
gk22_x9 ==
  << << 0, X(-1, 2, 959210779, 063838000)>>,
     << 1, X(-1, 2, 023230191, 100515700)>>,
     << 2, X(-1, 1, 224744871, 391588900)>>,
     << 3, X(-1, 0, 524033547, 486957630)>>,
     << 4, X( 0, 0, 000000000, 000000000)>>,
     << 5, X( 1, 0, 524033547, 486957630)>>,
     << 6, X( 1, 1, 224744871, 391588900)>>,
     << 7, X( 1, 2, 023230191, 100515700)>>,
     << 8, X( 1, 2, 959210779, 063838000)>> >>

\* gk22, n == 9: the assignments to w, in program order, as <<index, value>>.
gk22_w9 ==
  << << 0, W( 1, 167088263, 068823480, -3)>>,
     << 1, W( 1, 141731178, 739790980, -1)>>,
     << 2, W( 1, 168118928, 947677710, 0)>>,
     << 3, W( 1, 478694285, 491141240, 0)>>,
     << 4, W( 1, 450147009, 753781970, 0)>>,
     << 5, W( 1, 478694285, 491141240, 0)>>,
     << 6, W( 1, 168118928, 947677710, 0)>>,
     << 7, W( 1, 141731178, 739790980, -1)>>,
     << 8, W( 1, 167088263, 068823480, -3)>> >>

\* gk22, n == 19: the assignments to x, in program order, as <<index, value>>.
gk22_x19 ==
  << << 0, X(-1, 4, 499599398, 310388100)>>,
     << 1, X(-1, 3, 667774215, 946337800)>>,
     << 2, X(-1, 2, 959210779, 063838000)>>,
     << 3, X(-1, 2, 266513262, 056787600)>>,
     << 4, X(-1, 2, 023230191, 100515700)>>,
     << 5, X(-1, 1, 835707975, 175186800)>>,
     << 6, X(-1, 1, 224744871, 391588900)>>,
     << 7, X(-1, 0, 870040895, 352902850)>>,
     << 8, X(-1, 0, 524033547, 486957630)>>,
     << 9, X( 0, 0, 000000000, 000000000)>>,
     <<10, X( 1, 0, 524033547, 486957630)>>,
     <<11, X( 1, 0, 870040895, 352902850)>>,
     <<12, X( 1, 1, 224744871, 391588900)>>,
     <<13, X( 1, 1, 835707975, 175186800)>>,
     <<14, X( 1, 2, 023230191, 100515700)>>,
     <<15, X( 1, 2, 266513262, 056787600)>>,
     <<16, X( 1, 2, 959210779, 063838000)>>,
     <<17, X( 1, 3, 667774215, 946337800)>>,
     <<18, X( 1, 4, 499599398, 310388100)>> >>

\* gk22, n == 19: the assignments to w, in program order, as <<index, value>>.
gk22_w19 ==
  << << 0, W( 1, 152957177, 053223570, -8)>>,
     << 1, W( 1, 108027672, 066247620, -5)>>,
     << 2, W( 1, 106565897, 728522670, -3)>>,
     << 3, W( 1, 511331743, 908838550, -2)>>,
     << 4, W(-1, 112324384, 890692290, -1)>>,
     << 5, W( 1, 320552430, 994458790, -1)>>,
     << 6, W( 1, 113607298, 957482690, 0)>>,
     << 7, W( 1, 108388619, 550030170, 0)>>,
     << 8, W( 1, 369246433, 689208510, 0)>>,
     << 9, W( 1, 537881607, 005101680, 0)>>,
     <<10, W( 1, 369246433, 689208510, 0)>>,
     <<11, W( 1, 108388619, 550030170, 0)>>,
     <<12, W( 1, 113607298, 957482690, 0)>>,
     <<13, W( 1, 320552430, 994458790, -1)>>,
     <<14, W(-1, 112324384, 890692290, -1)>>,
     <<15, W( 1, 511331743, 908838550, -2)>>,
     <<16, W( 1, 106565897, 728522670, -3)>>,
     <<17, W( 1, 108027672, 066247620, -5)>>,
     <<18, W( 1, 152957177, 053223570, -8)>> >>

\* gk22, n == 41: the assignments to x, in program order, as <<index, value>>.
gk22_x41 ==
  << << 0, X(-1, 7, 251792998, 192644000)>>,
     << 1, X(-1, 6, 547083258, 397540000)>>,
     << 2, X(-1, 5, 961461043, 404500000)>>,
     << 3, X(-1, 5, 437443360, 177798000)>>,
     << 4, X(-1, 4, 953574342, 912980000)>>,
     << 5, X(-1, 4, 499599398, 310388100)>>,
     << 6, X(-1, 4, 070919267, 883068000)>>,
     << 7, X(-1, 3, 667774215, 946337800)>>,
     << 8, X(-1, 3, 296114596, 212218000)>>,
     << 9, X(-1, 2, 959210779, 063838000)>>,
     <<10, X(-1, 2, 630415236, 459871000)>>,
     <<11, X(-1, 2, 266513262, 056787600)>>,
     <<12, X(-1, 2, 043834754, 429505000)>>,
     <<13, X(-1, 2, 023230191, 100515700)>>,
     <<14, X(-1, 1, 835707975, 175186800)>>,
     <<15, X(-1, 1, 585873011, 819188000)>>,
     <<16, X(-1, 1, 224744871, 391588900)>>,
     <<17, X(-1, 0, 870040895, 352902850)>>,
     <<18, X(-1, 0, 524033547, 486957630)>>,
     <<19, X(-1, 0, 195324784, 415805000)>>,
     <<20, X( 0, 0, 000000000, 000000000)>>,
     <<21, X( 1, 0, 195324784, 415805000)>>,
     <<22, X( 1, 0, 524033547, 486957630)>>,
     <<23, X( 1, 0, 870040895, 352902850)>>,
     <<24, X( 1, 1, 224744871, 391588900)>>,
     <<25, X( 1, 1, 585873011, 819188000)>>,
     <<26, X( 1, 1, 835707975, 175186800)>>,
     <<27, X( 1, 2, 023230191, 100515700)>>,
     <<28, X( 1, 2, 043834754, 429505000)>>,
     <<29, X( 1, 2, 266513262, 056787600)>>,
     <<30, X( 1, 2, 630415236, 459871000)>>,
     <<31, X( 1, 2, 959210779, 063838000)>>,
     <<32, X( 1, 3, 296114596, 212218000)>>,
     <<33, X( 1, 3, 667774215, 946337800)>>,
     <<34, X( 1, 4, 070919267, 883068000)>>,
     <<35, X( 1, 4, 499599398, 310388100)>>,
     <<36, X( 1, 4, 953574342, 912980000)>>,
     <<37, X( 1, 5, 437443360, 177798000)>>,
     <<38, X( 1, 5, 961461043, 404500000)>>,
     <<39, X( 1, 6, 547083258, 397540000)>>,
     <<40, X( 1, 7, 251792998, 192644000)>> >>

\* gk22, n == 41: the assignments to w, in program order, as <<index, value>>.
gk22_w41 ==
  << << 0, W( 1, 664195893, 812757801, -23)>>,
     << 1, W( 1, 860427172, 512207236, -19)>>,
     << 2, W( 1, 114070078, 530850900, -15)>>,
     << 3, W( 1, 408820161, 202505983, -13)>>,
     << 4, W( 1, 581803393, 170320419, -11)>>,
     << 5, W( 1, 400784141, 604834759, -9)>>,
     << 6, W( 1, 149158210, 417831408, -7)>>,
     << 7, W( 1, 315372265, 852264871, -6)>>,
     << 8, W( 1, 381182791, 749177506, -5)>>,
     << 9, W( 1, 288976780, 274478689, -4)>>,
     <<10, W( 1, 189010909, 805097887, -3)>>,
     <<11, W( 1, 140697424, 065246825, -2)>>,
     <<12, W(-1, 144528422, 206988237, -1)>>,
     <<13, W( 1, 178852543, 033699732, -1)>>,
     <<14, W( 1, 705471110, 122962612, -3)>>,
     <<15, W( 1, 165445526, 705860772, -1)>>,
     <<16, W( 1, 451090103, 358591280, -1)>>,
     <<17, W( 1, 928338228, 510111845, -1)>>,
     <<18, W( 1, 145966293, 895926429, 0)>>,
     <<19, W( 1, 165639740, 400529554, 0)>>,
     <<20, W( 1, 562793426, 043218877, -1)>>,
     <<21, W( 1, 165639740, 400529554, 0)>>,
     <<22, W( 1, 145966293, 895926429, 0)>>,
     <<23, W( 1, 928338228, 510111845, -1)>>,
     <<24, W( 1, 451090103, 358591280, -1)>>,
     <<25, W( 1, 165445526, 705860772, -1)>>,
     <<26, W( 1, 705471110, 122962612, -3)>>,
     <<27, W( 1, 178852543, 033699732, -1)>>,
     <<28, W(-1, 144528422, 206988237, -1)>>,
     <<29, W( 1, 140697424, 065246825, -2)>>,
     <<30, W( 1, 189010909, 805097887, -3)>>,
     <<31, W( 1, 288976780, 274478689, -4)>>,
     <<32, W( 1, 381182791, 749177506, -5)>>,
     <<33, W( 1, 315372265, 852264871, -6)>>,
     <<34, W( 1, 149158210, 417831408, -7)>>,
     <<35, W( 1, 400784141, 604834759, -9)>>,
     <<36, W( 1, 581803393, 170320419, -11)>>,
     <<37, W( 1, 408820161, 202505983, -13)>>,
     <<38, W( 1, 114070078, 530850900, -15)>>,
     <<39, W( 1, 860427172, 512207236, -19)>>,
     <<40, W( 1, 664195893, 812757801, -23)>> >>

\* gk24, n == 1: the assignments to x, in program order, as <<index, value>>.
gk24_x1 ==
  << << 0, X( 0, 0, 000000000, 000000000)>> >>

\* gk24, n == 1: the assignments to w, in program order, as <<index, value>>.
gk24_w1 ==
  << << 0, W( 1, 177245385, 090551590, 1)>> >>

\* gk24, n == 3: the assignments to x, in program order, as <<index, value>>.
gk24_x3 ==
  << << 0, X(-1, 1, 224744871, 391588900)>>,
     << 1, X( 0, 0, 000000000, 000000000)>>,
     << 2, X( 1, 1, 224744871, 391588900)>> >>

\* gk24, n == 3: the assignments to w, in program order, as <<index, value>>.
gk24_w3 ==
  << << 0, W( 1, 295408975, 150919300, 0)>>,
     << 1, W( 1, 118163590, 060367720, 1)>>,
     << 2, W( 1, 295408975, 150919300, 0)>> >>

\* gk24, n == 9: the assignments to x, in program order, as <<index, value>>.
gk24_x9 ==
  << << 0, X(-1, 2, 959210779, 063838000)>>,
     << 1, X(-1, 2, 023230191, 100515700)>>,
     << 2, X(-1, 1, 224744871, 391588900)>>,
     << 3, X(-1, 0, 524033547, 486957630)>>,
     << 4, X( 0, 0, 000000000, 000000000)>>,
     << 5, X( 1, 0, 524033547, 486957630)>>,
     << 6, X( 1, 1, 224744871, 391588900)>>,
     << 7, X( 1, 2, 023230191, 100515700)>>,
     << 8, X( 1, 2, 959210779, 063838000)>> >>

\* gk24, n == 9: the assignments to w, in program order, as <<index, value>>.
gk24_w9 ==
  << << 0, W( 1, 167088263, 068823480, -3)>>,
     << 1, W( 1, 141731178, 739790980, -1)>>,
     << 2, W( 1, 168118928, 947677710, 0)>>,
     << 3, W( 1, 478694285, 491141240, 0)>>,
     << 4, W( 1, 450147009, 753781970, 0)>>,
     << 5, W( 1, 478694285, 491141240, 0)>>,
     << 6, W( 1, 168118928, 947677710, 0)>>,
     << 7, W( 1, 141731178, 739790980, -1)>>,
     << 8, W( 1, 167088263, 068823480, -3)>> >>

\* gk24, n == 19: the assignments to x, in program order, as <<index, value>>.
gk24_x19 ==
  << << 0, X(-1, 4, 499599398, 310388100)>>,
     << 1, X(-1, 3, 667774215, 946337800)>>,
     << 2, X(-1, 2, 959210779, 063838000)>>,
     << 3, X(-1, 2, 266513262, 056787600)>>,
     << 4, X(-1, 2, 023230191, 100515700)>>,
     << 5, X(-1, 1, 835707975, 175186800)>>,
     << 6, X(-1, 1, 224744871, 391588900)>>,
     << 7, X(-1, 0, 870040895, 352902850)>>,
     << 8, X(-1, 0, 524033547, 486957630)>>,
     << 9, X( 0, 0, 000000000, 000000000)>>,
     <<10, X( 1, 0, 524033547, 486957630)>>,
     <<11, X( 1, 0, 870040895, 352902850)>>,
     <<12, X( 1, 1, 224744871, 391588900)>>,
     <<13, X( 1, 1, 835707975, 175186800)>>,
     <<14, X( 1, 2, 023230191, 100515700)>>,
     <<15, X( 1, 2, 266513262, 056787600)>>,
     <<16, X( 1, 2, 959210779, 063838000)>>,
     <<17, X( 1, 3, 667774215, 946337800)>>,
     <<18, X( 1, 4, 499599398, 310388100)>> >>

\* gk24, n == 19: the assignments to w, in program order, as <<index, value>>.
gk24_w19 ==
  << << 0, W( 1, 152957177, 053223570, -8)>>,
     << 1, W( 1, 108027672, 066247620, -5)>>,
     << 2, W( 1, 106565897, 728522670, -3)>>,
     << 3, W( 1, 511331743, 908838550, -2)>>,
     << 4, W(-1, 112324384, 890692290, -1)>>,
     << 5, W( 1, 320552430, 994458790, -1)>>,
     << 6, W( 1, 113607298, 957482690, 0)>>,
     << 7, W( 1, 108388619, 550030170, 0)>>,
     << 8, W( 1, 369246433, 689208510, 0)>>,
     << 9, W( 1, 537881607, 005101680, 0)>>,
     <<10, W( 1, 369246433, 689208510, 0)>>,
     <<11, W( 1, 108388619, 550030170, 0)>>,
     <<12, W( 1, 113607298, 957482690, 0)>>,
     <<13, W( 1, 320552430, 994458790, -1)>>,
     <<14, W(-1, 112324384, 890692290, -1)>>,
     <<15, W( 1, 511331743, 908838550, -2)>>,
     <<16, W( 1, 106565897, 728522670, -3)>>,
     <<17, W( 1, 108027672, 066247620, -5)>>,
     <<18, W( 1, 152957177, 053223570, -8)>> >>

\* gk24, n == 43: the assignments to x, in program order, as <<index, value>>.
gk24_x43 ==
  << << 0, X(-1, 10, 167574994, 881873000)>>,
     << 1, X(-1, 7, 231746029, 072501000)>>,
     << 2, X(-1, 6, 535398426, 382995000)>>,
     << 3, X(-1, 5, 954781975, 039809000)>>,
     << 4, X(-1, 5, 434053000, 365068000)>>,
     << 5, X(-1, 4, 952329763, 008589000)>>,
     << 6, X(-1, 4, 499599398, 310388100)>>,
     << 7, X(-1, 4, 071335874, 253583000)>>,
     << 8, X(-1, 3, 667774215, 946337800)>>,
     << 9, X(-1, 3, 295265921, 534226000)>>,
     <<10, X(-1, 2, 959210779, 063838000)>>,
     <<11, X(-1, 2, 633356763, 661946000)>>,
     <<12, X(-1, 2, 266513262, 056787600)>>,
     <<13, X(-1, 2, 089340389, 294661000)>>,
     <<14, X(-1, 2, 023230191, 100515700)>>,
     <<15, X(-1, 1, 835707975, 175186800)>>,
     <<16, X(-1, 1, 583643465, 293944000)>>,
     <<17, X(-1, 1, 224744871, 391588900)>>,
     <<18, X(-1, 0, 870040895, 352902850)>>,
     <<19, X(-1, 0, 524033547, 486957630)>>,
     <<20, X(-1, 0, 196029453, 662011000)>>,
     <<21, X( 0, 0, 000000000, 000000000)>>,
     <<22, X( 1, 0, 196029453, 662011000)>>,
     <<23, X( 1, 0, 524033547, 486957630)>>,
     <<24, X( 1, 0, 870040895, 352902850)>>,
     <<25, X( 1, 1, 224744871, 391588900)>>,
     <<26, X( 1, 1, 583643465, 293944000)>>,
     <<27, X( 1, 1, 835707975, 175186800)>>,
     <<28, X( 1, 2, 023230191, 100515700)>>,
     <<29, X( 1, 2, 089340389, 294661000)>>,
     <<30, X( 1, 2, 266513262, 056787600)>>,
     <<31, X( 1, 2, 633356763, 661946000)>>,
     <<32, X( 1, 2, 959210779, 063838000)>>,
     <<33, X( 1, 3, 295265921, 534226000)>>,
     <<34, X( 1, 3, 667774215, 946337800)>>,
     <<35, X( 1, 4, 071335874, 253583000)>>,
     <<36, X( 1, 4, 499599398, 310388100)>>,
     <<37, X( 1, 4, 952329763, 008589000)>>,
     <<38, X( 1, 5, 434053000, 365068000)>>,
     <<39, X( 1, 5, 954781975, 039809000)>>,
     <<40, X( 1, 6, 535398426, 382995000)>>,
     <<41, X( 1, 7, 231746029, 072501000)>>,
     <<42, X( 1, 10, 167574994, 881873000)>> >>

\* gk24, n == 43: the assignments to w, in program order, as <<index, value>>.
gk24_w43 ==
  << << 0, W( 1, 546191947, 478318097, -37)>>,
     << 1, W( 1, 875449098, 713238730, -23)>>,
     << 2, W( 1, 992619971, 560149097, -19)>>,
     << 3, W( 1, 122619614, 947864357, -15)>>,
     << 4, W( 1, 421921851, 448196032, -13)>>,
     << 5, W( 1, 586915885, 251734856, -11)>>,
     << 6, W( 1, 400030575, 425776948, -9)>>,
     << 7, W( 1, 148653643, 571796457, -7)>>,
     << 8, W( 1, 316018363, 221289247, -6)>>,
     << 9, W( 1, 383880761, 947398577, -5)>>,
     <<10, W( 1, 286802318, 064777813, -4)>>,
     <<11, W( 1, 184789465, 688357423, -3)>>,
     <<12, W( 1, 150909333, 211638847, -2)>>,
     <<13, W(-1, 387995586, 238771570, -2)>>,
     <<14, W( 1, 673547589, 010132950, -2)>>,
     <<15, W( 1, 139966252, 291568061, -2)>>,
     <<16, W( 1, 163616873, 493832402, -1)>>,
     <<17, W( 1, 450612329, 041864976, -1)>>,
     <<18, W( 1, 928711584, 442575456, -1)>>,
     <<19, W( 1, 145863292, 632147353, 0)>>,
     <<20, W( 1, 164880913, 687436689, 0)>>,
     <<21, W( 1, 579595986, 101181095, -1)>>,
     <<22, W( 1, 164880913, 687436689, 0)>>,
     <<23, W( 1, 145863292, 632147353, 0)>>,
     <<24, W( 1, 928711584, 442575456, -1)>>,
     <<25, W( 1, 450612329, 041864976, -1)>>,
     <<26, W( 1, 163616873, 493832402, -1)>>,
     <<27, W( 1, 139966252, 291568061, -2)>>,
     <<28, W( 1, 673547589, 010132950, -2)>>,
     <<29, W(-1, 387995586, 238771570, -2)>>,
     <<30, W( 1, 150909333, 211638847, -2)>>,
     <<31, W( 1, 184789465, 688357423, -3)>>,
     <<32, W( 1, 286802318, 064777813, -4)>>,
     <<33, W( 1, 383880761, 947398577, -5)>>,
     <<34, W( 1, 316018363, 221289247, -6)>>,
     <<35, W( 1, 148653643, 571796457, -7)>>,
     <<36, W( 1, 400030575, 425776948, -9)>>,
     <<37, W( 1, 586915885, 251734856, -11)>>,
     <<38, W( 1, 421921851, 448196032, -13)>>,
     <<39, W( 1, 122619614, 947864357, -15)>>,
     <<40, W( 1, 992619971, 560149097, -19)>>,
     <<41, W( 1, 875449098, 713238730, -23)>>,
     <<42, W( 1, 546191947, 478318097, -37)>> >>
\* ------------------------------------------------------------------------
\* gk16
\* ------------------------------------------------------------------------
gk16_orders == <<1, 3, 7, 9, 17, 19, 31, 33, 35>>

\* The if/elif chain on the resolved order n; no branch leaves x and w as
\* np.zeros made them.
gk16_branch(n) ==
  CASE n = 1 -> [x |-> gk16_x1, w |-> gk16_w1]
    [] n = 3 -> [x |-> gk16_x3, w |-> gk16_w3]
    [] n = 7 -> [x |-> gk16_x7, w |-> gk16_w7]
    [] n = 9 -> [x |-> gk16_x9, w |-> gk16_w9]
    [] n = 17 -> [x |-> gk16_x17, w |-> gk16_w17]
    [] n = 19 -> [x |-> gk16_x19, w |-> gk16_w19]
    [] n = 31 -> [x |-> gk16_x31, w |-> gk16_w31]
    [] n = 33 -> [x |-> gk16_x33, w |-> gk16_w33]
    [] n = 35 -> [x |-> gk16_x35, w |-> gk16_w35]
    [] OTHER -> [x |-> <<>>, w |-> <<>>]

gk16(n) ==
  LET o == PyIndex(gk16_orders, n)
  IN  IF ~o.ok THEN Err("IndexError")
      ELSE LET b == gk16_branch(o.v)
               x == Assign(zeros(o.v, XZero), b.x)
               w == Assign(zeros(o.v, WZero), b.w)
           IN  Ok(Scale(x), Normalise(w))

\* ------------------------------------------------------------------------
\* gk18
\* ------------------------------------------------------------------------
gk18_orders == <<1, 3, 9, 19, 37>>

\* The if/elif chain on the resolved order n; no branch leaves x and w as
\* np.zeros made them.
gk18_branch(n) ==
  CASE n = 1 -> [x |-> gk18_x1, w |-> gk18_w1]
    [] n = 3 -> [x |-> gk18_x3, w |-> gk18_w3]
    [] n = 9 -> [x |-> gk18_x9, w |-> gk18_w9]
    [] n = 19 -> [x |-> gk18_x19, w |-> gk18_w19]
    [] n = 37 -> [x |-> gk18_x37, w |-> gk18_w37]
    [] OTHER -> [x |-> <<>>, w |-> <<>>]

gk18(n) ==
  LET o == PyIndex(gk18_orders, n)
  IN  IF ~o.ok THEN Err("IndexError")
      ELSE LET b == gk18_branch(o.v)
               x == Assign(zeros(o.v, XZero), b.x)
               w == Assign(zeros(o.v, WZero), b.w)
           IN  Ok(Scale(x), Normalise(w))

\* ------------------------------------------------------------------------
\* gk22
\* ------------------------------------------------------------------------
\* A slip that copies the order list of gk24 into gk22.
gk22_orders_copied == <<1, 3, 9, 19, 43>>

gk22_orders == <<1, 3, 9, 19, 41>>

\* The if/elif chain on the resolved order n; no branch leaves x and w as
\* np.zeros made them.
gk22_branch(n) ==
  CASE n = 1 -> [x |-> gk22_x1, w |-> gk22_w1]
    [] n = 3 -> [x |-> gk22_x3, w |-> gk22_w3]
    [] n = 9 -> [x |-> gk22_x9, w |-> gk22_w9]
    [] n = 19 -> [x |-> gk22_x19, w |-> gk22_w19]
    [] n = 41 -> [x |-> gk22_x41, w |-> gk22_w41]
    [] OTHER -> [x |-> <<>>, w |-> <<>>]

gk22(n) ==
  LET o == PyIndex(gk22_orders, n)
  IN  IF ~o.ok THEN Err("IndexError")
      ELSE LET b == gk22_branch(o.v)
               x == Assign(zeros(o.v, XZero), b.x)
               w == Assign(zeros(o.v, WZero), b.w)
           IN  Ok(Scale(x), Normalise(w))

\* ------------------------------------------------------------------------
\* gk24
\* ------------------------------------------------------------------------
gk24_orders == <<1, 3, 9, 19, 43>>

\* The if/elif chain on the resolved order n; no branch leaves x and w as
\* np.zeros made them.
gk24_branch(n) ==
  CASE n = 1 -> [x |-> gk24_x1, w |-> gk24_w1]
    [] n = 3 -> [x |-> gk24_x3, w |-> gk24_w3]
    [] n = 9 -> [x |-> gk24_x9, w |-> gk24_w9]
    [] n = 19 -> [x |-> gk24_x19, w |-> gk24_w19]
    [] n = 43 -> [x |-> gk24_x43, w |-> gk24_w43]
    [] OTHER -> [x |-> <<>>, w |-> <<>>]

gk24(n) ==
  LET o == PyIndex(gk24_orders, n)
  IN  IF ~o.ok THEN Err("IndexError")
      ELSE LET b == gk24_branch(o.v)
               x == Assign(zeros(o.v, XZero), b.x)
               w == Assign(zeros(o.v, WZero), b.w)
           IN  Ok(Scale(x), Normalise(w))

\* ------------------------------------------------------------------------
\* Arguments of gk.
\* ------------------------------------------------------------------------
\* order: an int, or a sequence of ints.
IntOrder(n) == [kind |-> "int", n |-> n, seq |-> <<>>]

SeqOrder(s) == [kind |-> "seq", n |-> 0, seq |-> s]

\* dist: one distribution object (len(dist) = 1, has .inv), or a sequence
\* of them (len(dist) = number of entries, has no .inv of its own).
Dist(d) == [kind |-> "Dist", ds |-> <<d>>]

DistList(ds) == [kind |-> "list", ds |-> ds]

\* rule: an int, or a value of another type (here the string of v).
IntRule(v) == [kind |-> "int", v |-> v]

StrRule(v) == [kind |-> "str", v |-> v]

\* len(dist)
len(dist) == Len(dist.ds)

\* dist[i], and the i-th item of "for d in dist"
item(dist, i) == Dist(dist.ds[i + 1])

\* ------------------------------------------------------------------------
\* External collaborators.
\* ------------------------------------------------------------------------
\* A slip that hands the abscissas to dist.inv as they are.
ndtr_skipped(x) == x

\* scipy.special.ndtr, elementwise.
ndtr(x) == array([i \in DOMAIN x |-> [ndtr |-> x[i]]])

\* dist.inv, elementwise, of distribution d.
inv(d, p) == array([i \in DOMAIN p |-> [inv |-> d, p |-> p[i]]])

\* ------------------------------------------------------------------------
\* utils.combine and the numpy operations applied to its result.
\* ------------------------------------------------------------------------
\* Number of combinations of one entry of each of A[i+1], ..., A[D-1].
RECURSIVE Stride(_, _)
Stride(A, i) ==
  IF i + 1 >= Size(A) THEN 1 ELSE Size(A[i + 1]) * Stride(A, i + 1)

\* combine(A): the Cartesian product of the arrays A[0], ..., A[D-1], one
\* row per combination, rows in lexicographic order (last array fastest).
combine(A) ==
  LET D == Size(A)
      M == Size(A[0]) * Stride(A, 0)
  IN  array([j \in 0..(M - 1) |->
               [i \in 0..(D - 1) |-> A[i][(j \div Stride(A, i)) % Size(A[i])]]])

\* combine(x) without the transposition.
T_missing(A, D) == A

\* A.T for the D-column matrix A.
T(A, D) == array([i \in 0..(D - 1) |-> [j \in DOMAIN A |-> A[j][i]]])

\* np.prod(A, -1): the product of each row, kept as the tuple of factors.
np_prod(A) == array([j \in DOMAIN A |-> [prod |-> A[j]]])

\* ------------------------------------------------------------------------
\* gk
\* ------------------------------------------------------------------------
Families == {16, 18, 22, 24}

\* A lookup that falls back to the default family for an unknown name.
eval_gk_default(v) ==
  [ok |-> TRUE, f |-> IF v \in Families THEN v ELSE 24, err |-> ""]

\* eval("gk"+str(rule)): the provider named, or the error of the lookup
\* ("gk-5" is the expression gk - 5).
eval_gk(v) ==
  IF v \in Families THEN [ok |-> TRUE, f |-> v, err |-> ""]
  ELSE IF v < 0 THEN [ok |-> FALSE, f |-> 0, err |-> "TypeError"]
  ELSE [ok |-> FALSE, f |-> 0, err |-> "NameError"]

\* A slip that takes the first entry of an order sequence as the level.
foo_first_entry(f, order) ==
  LET n == IF order.kind = "int" THEN order.n ELSE order.seq[1]
  IN  CASE f = 16 -> gk16(n)
        [] f = 18 -> gk18(n)
        [] f = 22 -> gk22(n)
        [] f = 24 -> gk24(n)

\* foo(order) for the provider foo of family f.
foo(f, order) ==
  IF order.kind # "int" THEN Err("TypeError")
  ELSE CASE f = 16 -> gk16(order.n)
         [] f = 18 -> gk18(order.n)
         [] f = 22 -> gk22(order.n)
         [] f = 24 -> gk24(order.n)

\* The first failing entry of the list comprehension, if any.
FirstError(xw) ==
  LET bad == {i \in DOMAIN xw : ~xw[i].ok}
  IN  IF bad = {} THEN -1 ELSE CHOOSE i \in bad : \A k \in bad : i <= k

\* x = [_[0][0] for _ in xw]
gk_x(xw, D) == array([i \in 0..(D - 1) |-> xw[i].x[0]])

\* A slip that pairs the weights with the nodes of the wrong dimension.
gk_w_reversed(xw, D) == array([i \in 0..(D - 1) |-> xw[D - 1 - i].w])

\* A slip that takes the nodes where the weights are meant.
gk_w_nodes(xw, D) == array([i \in 0..(D - 1) |-> xw[i].x[0]])

\* w = [_[1] for _ in xw]
gk_w(xw, D) == array([i \in 0..(D - 1) |-> xw[i].w])

RECURSIVE gk(_, _, _)
\* A slip that hands the loop index to each dimension where the one int
\* order is meant: gk(i, dist[i], rule).
gk_index_as_order(order, dist, rule) ==
  IF rule.kind # "int" THEN Err("AssertionError")
  ELSE IF len(dist) > 1
  THEN LET D  == len(dist)
           xw == array([i \in 0..(D - 1) |->
                    IF order.kind = "int" THEN gk(IntOrder(i), item(dist, i), rule)
                    ELSE IF i >= Len(order.seq) THEN Err("IndexError")
                    ELSE gk(IntOrder(order.seq[i + 1]), item(dist, i), rule)])
           e  == FirstError(xw)
       IN  IF e >= 0 THEN Err(xw[e].err)
           ELSE LET x == gk_x(xw, D)
                    w == gk_w(xw, D)
                IN  Ok(T(combine(x), D), np_prod(combine(w)))
  ELSE LET g == eval_gk(rule.v)
       IN  IF ~g.ok THEN Err(g.err)
           ELSE LET xw == foo(g.f, order)
                IN  IF ~xw.ok THEN xw
                    ELSE IF dist.kind # "Dist" THEN Err("AttributeError")
                    ELSE LET x == inv(dist.ds[1], ndtr(xw.x))
                         IN  Ok(array([r \in {0} |-> x]), xw.w)

gk(order, dist, rule) ==
  IF rule.kind # "int" THEN Err("AssertionError")
  ELSE IF len(dist) > 1
  THEN LET D  == len(dist)
           xw == array([i \in 0..(D - 1) |->
                    IF order.kind = "int" THEN gk(order, item(dist, i), rule)
                    ELSE IF i >= Len(order.seq) THEN Err("IndexError")
                    ELSE gk(IntOrder(order.seq[i + 1]), item(dist, i), rule)])
           e  == FirstError(xw)
       IN  IF e >= 0 THEN Err(xw[e].err)
           ELSE LET x == gk_x(xw, D)
                    w == gk_w(xw, D)
                IN  Ok(T(combine(x), D), np_prod(combine(w)))
  ELSE LET g == eval_gk(rule.v)
       IN  IF ~g.ok THEN Err(g.err)
           ELSE LET xw == foo(g.f, order)
                IN  IF ~xw.ok THEN xw
                    ELSE IF dist.kind # "Dist" THEN Err("AttributeError")
                    ELSE LET x == inv(dist.ds[1], ndtr(xw.x))
                         IN  Ok(array([r \in {0} |-> x]), xw.w)

\* The calls one call of gk makes: foo counts the invocations of a rule
\* provider (line 1185), depth the calls of gk nested in it.
Calls(n, d) == [foo |-> n, depth |-> d]

RECURSIVE Sum(_)
Sum(f) ==
  IF DOMAIN f = {} THEN 0
  ELSE LET i == CHOOSE i \in DOMAIN f : TRUE
       IN  f[i] + Sum([j \in DOMAIN f \ {i} |-> f[j]])

\* A slip that calls the provider once for x and once for w.
gk_single_calls_twice(rule) ==
  Calls(IF eval_gk(rule.v).ok THEN 2 ELSE 0, 0)

\* The single-distribution branch: foo(order) runs once eval has found
\* the provider, and no call of gk is made.
gk_single_calls(rule) ==
  Calls(IF eval_gk(rule.v).ok THEN 1 ELSE 0, 0)

\* The calls made by gk(order, dist, rule): with several distributions
\* the entries of the list comprehension run in order up to the first
\* that raises; an entry calls gk unless order[i] raises before.
RECURSIVE gk_calls(_, _, _)
gk_calls(order, dist, rule) ==
  IF rule.kind # "int" THEN Calls(0, 0)
  ELSE IF len(dist) > 1
  THEN LET D == len(dist)
           NoEntry(i) == order.kind = "seq" /\ i >= Len(order.seq)
           At(i) == IF order.kind = "int" THEN order
                    ELSE IntOrder(order.seq[i + 1])
           bad == {i \in 0..(D - 1) :
                     NoEntry(i) \/ ~gk(At(i), item(dist, i), rule).ok}
           last == IF bad = {} THEN D - 1
                   ELSE CHOOSE i \in bad : \A k \in bad : i <= k
           made == {i \in 0..last : ~NoEntry(i)}
           sub == array([i \in made |-> gk_calls(At(i), item(dist, i), rule)])
       IN  Calls(Sum([i \in made |-> sub[i].foo]),
                 IF made = {} THEN 0
                 ELSE LET ds == {sub[i].depth : i \in made}
                      IN  1 + (CHOOSE d \in ds : \A k \in ds : k <= d))
  ELSE gk_single_calls(rule)

\* ------------------------------------------------------------------------
\* The calls.
\* ------------------------------------------------------------------------
VARIABLES pc, call, result

vars == <<pc, call, result>>

Levels == (0 - LevelSpan)..LevelSpan

\* Levels of multi-distribution calls: the valid levels up to MaxGridLevel,
\* a level no family has, and the negative level -9 (the list indexing of
\* gk16 reads it from the end of its nine orders).
GridLevels == (0..MaxGridLevel) \cup {LevelSpan} \cup {0 - Len(gk16_orders)}

Dists == {"normal", "uniform"}

Rules == {IntRule(v) : v \in Families \cup {20, -16}} \cup {StrRule(24)}

\* A default that names the first family.
rule_default_first == IntRule(16)

\* def gk(order, dist, rule=24): the rule of a call that names none.
rule_default == IntRule(24)

SeqsOf(S, lo, hi) == UNION {[1..k -> S] : k \in lo..hi}

\* Order sequences: every sequence of 1..MaxDim levels, and the sequences
\* of MaxDim levels with one more entry.
OrderSeqs ==
  SeqsOf(GridLevels, 1, MaxDim)
    \cup {Append(s, 0) : s \in [1..MaxDim -> GridLevels]}

NoOrder == IntOrder(0)

NoDist == DistList(<<>>)

NoRule == IntRule(0)

Call(fn, order, dist, rule) ==
  [fn |-> fn, order |-> order, dist |-> dist, rule |-> rule]

Init ==
  /\ pc = "idle"
  /\ call = Call("none", NoOrder, NoDist, NoRule)
  /\ result = Err("")

\* A caller invokes provider gk<f> with level n.
CallProvider(f, n) ==
  /\ pc = "idle"
  /\ pc' = "done"
  /\ call' = Call("provider", IntOrder(n), NoDist, IntRule(f))
  /\ result' = foo(f, IntOrder(n))

\* A caller invokes gk(order, dist, rule).
CallGk(order, dist, rule) ==
  /\ pc = "idle"
  /\ pc' = "done"
  /\ call' = Call("gk", order, dist, rule)
  /\ result' = gk(order, dist, rule)

\* gk with one distribution: a distribution object or a list of one.
CallGkSingle ==
  \E d \in Dists, rule \in Rules :
    \E dist \in {Dist(d), DistList(<<d>>)} :
      \/ \E n \in Levels : CallGk(IntOrder(n), dist, rule)
      \/ \E s \in OrderSeqs : CallGk(SeqOrder(s), dist, rule)

\* gk with D > 1 distributions.
CallGkMulti ==
  \E ds \in SeqsOf(Dists, 2, MaxDim), rule \in Rules :
    \/ \E n \in GridLevels : CallGk(IntOrder(n), DistList(ds), rule)
    \/ \E s \in OrderSeqs : CallGk(SeqOrder(s), DistList(ds), rule)

\* A caller invokes gk(order, dist), naming no rule.
CallGkDefault ==
  \E order \in {IntOrder(n) : n \in GridLevels} \cup {SeqOrder(s) : s \in OrderSeqs},
     dist \in {Dist(d) : d \in Dists}
                \cup {DistList(ds) : ds \in SeqsOf(Dists, 1, MaxDim)} :
    /\ pc = "idle"
    /\ pc' = "done"
    /\ call' = Call("gk_default", order, dist, rule_default)
    /\ result' = gk(order, dist, rule_default)

\* The caller takes the outcome; nothing of a call is kept.
Return ==
  /\ pc = "done"
  /\ pc' = "idle"
  /\ call' = Call("none", NoOrder, NoDist, NoRule)
  /\ result' = Err("")

Next ==
  \/ \E f \in Families, n \in Levels : CallProvider(f, n)
  \/ CallGkSingle
  \/ CallGkMulti
  \/ CallGkDefault
  \/ Return

Spec == Init /\ [][Next]_vars

\* ------------------------------------------------------------------------
\* Properties.
\* ------------------------------------------------------------------------
\* A call of gk has returned or failed.
GkDone == pc = "done" /\ call.fn = "gk"

\* A call of a rule provider has returned or failed.
ProviderDone == pc = "done" /\ call.fn = "provider"

\* The family and the level of a provider call.
Fam == call.rule.v

Lvl == call.order.n

\* The number of levels of family f: 9 for gk16, 5 for the others.
NumLevels(f) == IF f = 16 THEN 9 ELSE 5

\* The number of distributions of the call of gk.
Dims == len(call.dist)

\* The order gk hands to dimension i.
OrderAt(i) ==
  IF call.order.kind = "int" THEN call.order ELSE IntOrder(call.order.seq[i + 1])

\* The one-dimensional rule of dimension i: gk on that dimension alone.
Part(i) == gk(OrderAt(i), item(call.dist, i), call.rule)

\* The size of the provider's rule for dimension i.
RuleSize(i) == Size(foo(call.rule.v, OrderAt(i)).w)

RECURSIVE SizeProduct(_)
SizeProduct(D) == IF D = 0 THEN 1 ELSE RuleSize(D - 1) * SizeProduct(D - 1)

\* C1: in a multi-distribution call that returns, every column j of the
\* grid is made of one node of each dimension's rule, w[j] is the product
\* of the weights of exactly those nodes, and the columns are all the
\* combinations, each once.
C1_GridPairsNodesWithWeights ==
  (GkDone /\ Dims > 1 /\ result.ok) =>
    LET D    == Dims
        part == array([i \in 0..(D - 1) |-> Part(i)])
        M    == Size(result.w)
        Hit(j, i) == {k \in DOMAIN part[i].w :
                        /\ part[i].x[0][k] = result.x[i][j]
                        /\ part[i].w[k] = result.w[j].prod[i]}
        idx(j) == [i \in 0..(D - 1) |-> CHOOSE k \in Hit(j, i) : TRUE]
    IN  /\ \A i \in 0..(D - 1) : part[i].ok
        /\ DOMAIN result.x = 0..(D - 1)
        /\ \A j \in DOMAIN result.w :
             /\ DOMAIN result.w[j].prod = 0..(D - 1)
             /\ \A i \in 0..(D - 1) : Hit(j, i) # {}
        /\ M = SizeProduct(D)
        /\ Cardinality({idx(j) : j \in DOMAIN result.w}) = M

\* A two-dimensional grid of two rules of more than one node, under two
\* different distributions.
C1_Witness ==
  /\ GkDone /\ Dims = 2 /\ result.ok
  /\ call.order.kind = "seq"
  /\ RuleSize(0) > 1 /\ RuleSize(1) > 1
  /\ call.dist.ds[1] # call.dist.ds[2]
  /\ Size(result.w) > 3

\* C2: a call of gk with D distributions that returns gives a node matrix
\* of D rows and M columns and M weights, M the product of the sizes of
\* the per-dimension rules; with one distribution, 1 row and N columns.
C2_Shape ==
  (GkDone /\ result.ok) =>
    LET D == Dims
        M == SizeProduct(D)
    IN  /\ DOMAIN result.x = 0..(D - 1)
        /\ \A i \in 0..(D - 1) : DOMAIN result.x[i] = 0..(M - 1)
        /\ DOMAIN result.w = 0..(M - 1)

\* A grid of two rules of different sizes.
C2_Witness ==
  /\ GkDone /\ Dims = 2 /\ result.ok
  /\ RuleSize(0) > RuleSize(1)
  /\ Size(result.w) = RuleSize(0) * RuleSize(1)

\* C3: a multi-distribution call whose order sequence is shorter or longer
\* than the number of distributions fails.
C3_LengthMismatchFails ==
  (GkDone /\ Dims > 1 /\ call.order.kind = "seq"
     /\ Len(call.order.seq) # Dims) => ~result.ok

\* C4: a rule provider returns a rule exactly for the levels 0..K-1 and
\* fails for every other level, negative ones included.
C4_OnlyLevelsInRange ==
  ProviderDone => (result.ok <=> (0 <= Lvl /\ Lvl < NumLevels(Fam)))

\* |a - b| <= 10^-12 for abscissas a, b scaled alike.
Tol == 10^6

Close(a, b) ==
  /\ a.s = b.s /\ a.r2 = b.r2 /\ a.ip = b.ip
  /\ a.f1 - b.f1 \in {-1, 0, 1}
  /\ (a.f1 - b.f1) * Base + (a.f2 - b.f2) \in (0 - Tol)..Tol

\* C5: the abscissas of level k are among the abscissas of level k+1 of
\* the same family (within tolerance), for all adjacent levels.
C5_Nested ==
  (ProviderDone /\ 0 <= Lvl /\ Lvl + 1 < NumLevels(Fam) /\ result.ok) =>
    LET next == foo(Fam, IntOrder(Lvl + 1))
    IN  /\ next.ok
        /\ \A i \in DOMAIN result.x :
             \E k \in DOMAIN next.x : Close(result.x[i], next.x[k])

\* C6: the abscissas of every rule are symmetric about zero,
\* x[i] = -x[N-1-i], and zero occurs once.
C6_Symmetric ==
  (ProviderDone /\ 0 <= Lvl /\ Lvl < NumLevels(Fam) /\ result.ok) =>
    LET N == Size(result.x)
    IN  /\ \A i \in DOMAIN result.x : result.x[i] = Neg(result.x[N - 1 - i])
        /\ Cardinality({i \in DOMAIN result.x : result.x[i].s = 0}) = 1

\* The level at which family f has order o (-1 if none).
LevelOf(f, o) ==
  LET ls == {n \in 0..(NumLevels(f) - 1) : Size(foo(f, IntOrder(n)).w) = o}
  IN  IF ls = {} THEN 0 - 1 ELSE CHOOSE n \in ls : TRUE

\* C7: for the orders 1, 3, 9 and 19 the four families return the same
\* rule, abscissa by abscissa and weight by weight.
C7_SharedLevels ==
  (ProviderDone /\ 0 <= Lvl /\ Lvl < NumLevels(Fam) /\ result.ok
     /\ Size(result.w) \in {1, 3, 9, 19}) =>
    \A f \in Families :
      LET n == LevelOf(f, Size(result.w))
          other == foo(f, IntOrder(n))
      IN  n >= 0 /\ other.x = result.x /\ other.w = result.w

\* C8: the weights of every rule sum to 1: all are fractions of one
\* non-zero denominator, and the numerators sum to that denominator.
C8_WeightsSumToOne ==
  (ProviderDone /\ result.ok) =>
    LET num == array([i \in DOMAIN result.w |-> result.w[i].num])
        S   == np_sum(num)
    IN  /\ ~IsZeroSum(S)
        /\ \A i \in DOMAIN result.w : result.w[i].den = S

\* A rule with a negative weight.
C8_Witness ==
  /\ ProviderDone /\ result.ok
  /\ Size(result.w) > 9
  /\ \E i \in DOMAIN result.w : result.w[i].num.s = -1

\* The call made, with every distribution replaced by the distribution d.
SameDist(d) == [call.dist EXCEPT !.ds = [i \in 1..Dims |-> d]]

\* C9: the weights gk returns are those it returns for the same order,
\* rule and number of dimensions under one fixed choice of distributions
\* (so any two choices give the same weights), and with one distribution
\* they are the provider's own.
C9_WeightsIgnoreDist ==
  (GkDone /\ result.ok) =>
    /\ LET r == gk(call.order, SameDist("normal"), call.rule)
       IN  r.ok /\ r.w = result.w
    /\ Dims = 1 => result.w = foo(call.rule.v, call.order).w

\* A grid over two different distributions.
C9_Witness ==
  /\ GkDone /\ result.ok /\ Dims = 2
  /\ call.dist.ds[1] # call.dist.ds[2]
  /\ call.dist.ds[1] # "normal"
  /\ Size(result.w) > 1

\* C10: gk fails for every rule that is not one of the ints 16, 18, 22, 24,
\* with one distribution and with several.
C10_UnknownFamilyFails ==
  (GkDone /\ ~(call.rule.kind = "int" /\ call.rule.v \in {16, 18, 22, 24}))
    => ~result.ok

\* A multi-distribution call with valid levels and the int rule 20.
C10_Witness ==
  /\ GkDone /\ Dims > 1
  /\ call.rule = IntRule(20)
  /\ call.order = IntOrder(1)
  /\ result.err = "NameError"


\* The rule of the call is one of the four families.
ValidRule == call.rule.kind = "int" /\ call.rule.v \in Families

\* Level n is one of the levels 0..K-1 of family f.
ValidLevel(f, n) == 0 <= n /\ n < NumLevels(f)

\* C12: with one distribution object, a valid level and a family, gk
\* returns a 1 x N matrix whose node i is dist.inv of ndtr of the
\* provider's i-th abscissa, and the provider's weights, in the
\* provider's order.
C12_SingleNodes ==
  (GkDone /\ call.dist.kind = "Dist" /\ ValidRule
     /\ call.order.kind = "int" /\ ValidLevel(Fam, Lvl)) =>
    LET p == foo(Fam, call.order)
    IN  /\ result.ok /\ p.ok
        /\ DOMAIN result.x = {0}
        /\ DOMAIN result.x[0] = DOMAIN p.x
        /\ DOMAIN result.w = DOMAIN p.x
        /\ \A i \in DOMAIN p.x :
             /\ result.x[0][i] = [inv |-> call.dist.ds[1], p |-> [ndtr |-> p.x[i]]]
             /\ result.w[i] = p.w[i]

\* A 19-point rule under the uniform distribution.
C12_Witness ==
  /\ GkDone /\ call.dist = Dist("uniform") /\ ValidRule
  /\ call.order.kind = "int" /\ ValidLevel(Fam, Lvl)
  /\ result.ok /\ Size(result.x[0]) = 19
  /\ result.x[0][18].p.ndtr.r2 = 1

\* The order sequence of D entries, each the level n.
Repeat(n, D) == SeqOrder([i \in 1..D |-> n])

\* C13: with D > 1 distributions and a valid level n, gk with the int
\* order n returns what it returns with the order sequence of D entries n.
C13_ScalarIsRepeated ==
  (GkDone /\ Dims > 1 /\ ValidRule
     /\ call.order.kind = "int" /\ ValidLevel(Fam, Lvl)) =>
    /\ result.ok
    /\ result = gk(Repeat(Lvl, Dims), call.dist, call.rule)

\* A grid of more than one column from the int order 1 over two different
\* distributions.
C13_Witness ==
  /\ GkDone /\ Dims = 2 /\ ValidRule
  /\ call.order = IntOrder(1)
  /\ call.dist.ds[1] # call.dist.ds[2]
  /\ result.ok /\ Size(result.w) = 9

\* The rule lengths of family f by level, as documented.
Lengths(f) ==
  CASE f = 16 -> <<1, 3, 7, 9, 17, 19, 31, 33, 35>>
    [] f = 18 -> <<1, 3, 9, 19, 37>>
    [] f = 22 -> <<1, 3, 9, 19, 41>>
    [] f = 24 -> <<1, 3, 9, 19, 43>>

IsOne(q) ==
  /\ ~IsZeroSum(q.den)
  /\ np_sum(array([i \in {0} |-> q.num])) = q.den

\* The node a standard-normal distribution returns for abscissa v has the
\* value of v: its inverse CDF undoes ndtr.
StdNormalNode(v) == [inv |-> "normal", p |-> [ndtr |-> v]]

\* The call asks for level 0 in every dimension.
AllLevelZero ==
  \/ call.order = IntOrder(0)
  \/ /\ call.order.kind = "seq" /\ Dims > 1
     /\ call.order.seq = [i \in 1..Dims |-> 0]

\* The call is over standard-normal distributions only: one distribution
\* object, or a sequence of two or more.
AllStdNormal ==
  \/ call.dist = Dist("normal")
  \/ Dims > 1 /\ \A i \in 1..Dims : call.dist.ds[i] = "normal"

\* C15: for every family and D >= 1 standard-normal distributions, gk with
\* level 0 in every dimension returns one grid point: a D x 1 node matrix
\* whose every entry is 0.0 and the weight vector [1.0].
C15_LevelZeroGrid ==
  (GkDone /\ ValidRule /\ AllStdNormal /\ AllLevelZero) =>
    /\ result.ok
    /\ DOMAIN result.x = 0..(Dims - 1)
    /\ \A i \in 0..(Dims - 1) :
         /\ DOMAIN result.x[i] = {0}
         /\ result.x[i][0] = StdNormalNode(XZero)
    /\ DOMAIN result.w = {0}
    /\ IF Dims = 1 THEN IsOne(result.w[0])
       ELSE /\ DOMAIN result.w[0].prod = 0..(Dims - 1)
            /\ \A i \in 0..(Dims - 1) : IsOne(result.w[0].prod[i])

\* Two standard-normal dimensions, level 0 each, given per dimension.
C15_Witness ==
  /\ GkDone /\ ValidRule /\ AllStdNormal /\ AllLevelZero
  /\ Dims = 2 /\ call.order.kind = "seq"
  /\ result.ok /\ Size(result.w) = 1

\* A call of gk that names no rule has returned or failed.
GkDefaultDone == pc = "done" /\ call.fn = "gk_default"

\* The order list of family f, and its last entry.
Orders(f) ==
  CASE f = 16 -> gk16_orders
    [] f = 18 -> gk18_orders
    [] f = 22 -> gk22_orders
    [] f = 24 -> gk24_orders

TopOrder(f) == Orders(f)[Len(Orders(f))]

\* The family whose top order exceeds that of every other family.
Deepest ==
  CHOOSE f \in Families : \A g \in Families \ {f} : TopOrder(g) < TopOrder(f)

\* C16: a call of gk that names no rule uses the family with the largest
\* top order of the four, gk24 with top order 43, and gives the result
\* of the call that names that family.
C16_DefaultIsDeepest ==
  GkDefaultDone =>
    /\ \A g \in Families \ {Deepest} : TopOrder(g) < TopOrder(Deepest)
    /\ Deepest = 24 /\ TopOrder(Deepest) = 43
    /\ call.rule = IntRule(Deepest)
    /\ result = gk(call.order, call.dist, IntRule(Deepest))

\* A two-dimensional grid of nine columns from a call that names no rule.
C16_Witness ==
  /\ GkDefaultDone /\ Dims = 2
  /\ result.ok /\ Size(result.w) = 9

\* C17: gk with exactly one distribution (a distribution object or a
\* sequence of one) and an order sequence of two or more levels fails.
C17_OneDistManyLevelsFails ==
  (GkDone /\ Dims = 1 /\ call.order.kind = "seq"
     /\ Len(call.order.seq) >= 2) => ~result.ok

\* The provider rejects the order sequence <<0, 1>> given with one
\* distribution object and a family.
C17_Witness ==
  /\ GkDone /\ call.dist.kind = "Dist" /\ ValidRule
  /\ call.order = SeqOrder(<<0, 1>>)
  /\ result.err = "TypeError"

\* C18: a multi-distribution call of gk with a family fails when the level
\* of any one dimension, first, middle or last, is none of the levels
\* 0..K-1 of that family.
C18_InvalidLevelFailsCall ==
  (GkDone /\ Dims > 1 /\ ValidRule
     /\ \E i \in 0..(Dims - 1) :
          /\ call.order.kind = "seq" => i < Len(call.order.seq)
          /\ ~ValidLevel(Fam, OrderAt(i).n)) => ~result.ok

\* The calls made by the call of gk.
Made == gk_calls(call.order, call.dist, call.rule)

\* C19 as stated: every call of gk with D > 1 distributions invokes the
\* rule provider exactly once per dimension, at recursion depth one.
C19_OncePerDimension ==
  (GkDone /\ Dims > 1) => (Made.foo = Dims /\ Made.depth = 1)

\* C19 as amended: every call of gk with D > 1 distributions ends having
\* invoked the rule provider at most once per dimension at recursion
\* depth at most one, and a call that returns has invoked it exactly once
\* per dimension at depth exactly one.
C19_AtMostOncePerDimension ==
  (GkDone /\ Dims > 1) =>
    /\ Made.foo <= Dims /\ Made.depth <= 1
    /\ result.ok => (Made.foo = Dims /\ Made.depth = 1)

\* A call that returns a grid of two rules of three nodes, each from one
\* invocation of the provider.
C19_Witness ==
  /\ GkDone /\ Dims = 2 /\ result.ok
  /\ call.order = SeqOrder(<<1, 1>>)
  /\ Made = Calls(2, 1)

\* The table branch of family f for order n.
Branch(f, n) ==
  CASE f = 16 -> gk16_branch(n)
    [] f = 18 -> gk18_branch(n)
    [] f = 22 -> gk22_branch(n)
    [] f = 24 -> gk24_branch(n)

\* C20: for every family and every level the provider resolves (every
\* valid level among them), the order read from the order list has a
\* table branch, so the rule is never left all zero: the branch assigns
\* every weight's slot and the weights are divided by a non-zero sum.
C20_OrderHasBranch ==
  (ProviderDone /\ (ValidLevel(Fam, Lvl) \/ result.ok)) =>
    LET o == PyIndex(Orders(Fam), Lvl)
        b == Branch(Fam, o.v)
    IN  /\ o.ok /\ result.ok
        /\ b.x # <<>> /\ b.w # <<>>
        /\ {b.w[k][1] : k \in DOMAIN b.w} = 0..(o.v - 1)
        /\ \A i \in DOMAIN result.w : ~IsZeroSum(result.w[i].den)
        /\ \E i \in DOMAIN result.w : result.w[i].num # WZero

\* The top level of gk22, order 41.
C20_Witness ==
  /\ ProviderDone /\ Fam = 22 /\ Lvl = 4 /\ result.ok
  /\ Len(Branch(22, 41).w) = 41
  /\ ~IsZeroSum(result.w[40].den)
====
